---------------------------- MODULE Spec2Model ----------------------------
(***************************************************************************)
(* A model of the car-service booking backend:                             *)
(*   - backend/middleware/rtlSupport.js: language resolution (rtlSupport), *)
(*     the response formatter (formatResponse) and the patched res.json    *)
(*     (formatResponseMiddleware);                                         *)
(*   - backend/routes/admin.js: the admin router.                          *)
(*                                                                         *)
(* JavaScript strings that the code inspects (keys, language tags) are     *)
(* sequences of one-character strings, so that endsWith, slice, split and  *)
(* toLowerCase are computed and not assumed.  JavaScript objects and       *)
(* arrays live in a heap of numbered nodes, so that two references to the  *)
(* same object and reference cycles can be told apart from equal copies.   *)
(***************************************************************************)
EXTENDS Integers, Sequences, FiniteSets, TLC

(***************************************************************************)
(* Bounds of the model.                                                    *)
(***************************************************************************)
\* objects and arrays a payload is built from
MaxNodes == 2
\* properties and array elements of a payload, all nodes together
MaxFields == 3
\* nested processObject calls the engine's call stack holds before it
\* throws RangeError (Maximum call stack size exceeded)
StackLimit == 8
\* characters of an Accept-Language header
MaxHeaderLen == 3
\* record ids of each collection (users, bookings, contacts)
MaxIds == 1
\* documents in the database, all collections together
MaxDocs == 2
\* requests of the API client in flight at one time
MaxInFlight == 2
\* runs of the seed script, one after the other
MaxRuns == 2

VARIABLES
  heap,     \* the objects and arrays of the payload under construction
  fpc,      \* formatter run: "build" (payload under construction) or "done"
  data,     \* formatResponse's first argument
  isRTL,    \* req.isRTL as formatResponse reads it
  out,      \* what formatResponse returned, and whether it threw
  qLang,    \* req.query.lang
  hLang,    \* req.headers["accept-language"]
  language, \* req.language
  direction,\* req.direction
  lpc,      \* request: "start", "resolved" (rtlSupport ran), "sent" (res.json ran)
  sent,     \* what the patched res.json handed to the original res.json
  db,       \* the stored users, bookings and contacts
  db0,      \* db as it was when the admin request under way was received
  areq,     \* the admin request under way, or the last one served
  apc,      \* its place in the router's stack; 0 when none is under way
  ares,     \* the response sent for it (code 0: none yet)
  trail,    \* the steps of the stack that ran for it, with their outcome
  touched,  \* the record accesses made for it: "read", "write"
  verrors,  \* the validation errors express-validator recorded on it
  store,    \* the documents of the database, counted by kind
  now,      \* the day the dashboard request is served on
  dpc,      \* dashboard request: 0 (none), 1..12 (its next query), 13 (to respond)
  results,  \* the results of the queries answered so far, in the order issued
  wrote,    \* a document was written since the dashboard request was received
  created,  \* a booking or contact was created since it was received
  dres,     \* the body of the dashboard response, once sent
  ls,       \* localStorage: the entries "token" and "user"
  pathname, \* window.location.pathname
  href,     \* the navigation started by an assignment to window.location.href
  flight,   \* the requests sent through the client and not settled yet
  last,     \* the response the interceptor has just handled, and its outcome
  cleared,  \* a 401 removed the token and no token was stored since
  modal,    \* the modal component modelled: "service" or "contact"
  isOpen,   \* its isOpen prop
  target,   \* its serviceToEdit / contact prop (null: Add mode)
  loading,  \* its loading state
  formData, \* ServiceModal's formData state
  imageFile,\* ServiceModal's imageFile state
  previewUrl,\* ServiceModal's previewUrl state
  pending,  \* the create / update requests of the modal that are in flight
  mlast,    \* what has just happened to the modal: opened, or a request settled
  sdb,      \* the database the seed script runs on
  spc,      \* seedDatabase: the step it is at; 0 before and after a run
  susers,   \* seedDatabase's local array users
  serr,     \* the error seedDatabase caught, if any
  slog,     \* the writes of the run: which collection was cleared or added to
  sruns,    \* the runs of seedDatabase so far
  snext     \* the next _id the driver generates

fvars == <<heap, fpc, data, isRTL, out>>
lvars == <<qLang, hLang, language, direction, lpc, sent>>
avars == <<db, db0, areq, apc, ares, trail, touched, verrors>>
dvars == <<store, now, dpc, results, wrote, created, dres>>
cvars == <<ls, pathname, href, flight, last, cleared>>
mvars == <<modal, isOpen, target, loading, formData, imageFile, previewUrl, pending, mlast>>
svars == <<sdb, spc, susers, serr, slog, sruns, snext>>
vars == <<heap, fpc, data, isRTL, out, qLang, hLang, language, direction, lpc, sent,
          db, db0, areq, apc, ares, trail, touched, verrors,
          store, now, dpc, results, wrote, created, dres,
          ls, pathname, href, flight, last, cleared,
          modal, isOpen, target, loading, formData, imageFile, previewUrl, pending, mlast,
          sdb, spc, susers, serr, slog, sruns, snext>>

(***************************************************************************)
(* JavaScript values.                                                      *)
(***************************************************************************)
\* a string is the sequence of its characters
Str(s) == [t |-> "str", v |-> s]
Bool(b) == [t |-> "bool", v |-> b]
Null == [t |-> "null"]
Undefined == [t |-> "undefined"]
Ref(i) == [t |-> "ref", id |-> i]
\* a fresh object / array created by the formatter
Obj(entries) == [t |-> "obj", entries |-> entries]
Arr(items) == [t |-> "arr", items |-> items]

Nodes == 1..MaxNodes
FreeNode == [kind |-> "free"]
ObjectNode(entries) == [kind |-> "object", entries |-> entries]
ArrayNode(items) == [kind |-> "array", items |-> items]

\* keys a payload may carry: n, nAr, nArAr
kN == <<"n">>
kNAr == <<"n", "A", "r">>
kNArAr == <<"n", "A", "r", "A", "r">>
Keys == {kN, kNAr, kNArAr}
sX == Str(<<"x">>)
sY == Str(<<"y">>)
Scalars == {sX, sY}

\* String.prototype.endsWith
endsWith(s, suffix) ==
  /\ Len(s) >= Len(suffix)
  /\ SubSeq(s, Len(s) - Len(suffix) + 1, Len(s)) = suffix

\* s.slice(0, -k)
sliceEnd(s, k) == SubSeq(s, 1, Len(s) - k)

AR == <<"A", "r">>

\* !data for the values of the model
Falsy(v) == v.t \in {"null", "undefined"} \/ (v.t = "str" /\ v.v = <<>>)

\* typeof obj === "object" && obj !== null
IsObjectRef(v) == v.t = "ref"

\* processed[key] = val: an existing property keeps its place
HasProp(entries, key) == \E i \in 1..Len(entries) : entries[i].key = key
SetProp(entries, key, val) ==
  IF HasProp(entries, key)
  THEN [i \in 1..Len(entries) |->
          IF entries[i].key = key THEN [key |-> key, val |-> val] ELSE entries[i]]
  ELSE Append(entries, [key |-> key, val |-> val])
GetProp(entries, key) ==
  LET i == CHOOSE j \in 1..Len(entries) : entries[j].key = key IN entries[i].val

\* a formatter that lacks the cycle guard
SeenHasNever(seen, id) == FALSE
\* a formatter that adds the object to seen before it looks it up
SeenHasAfterAdd(seen, id) == id \in (seen \cup {id})
\* seen.has(obj)
SeenHas(seen, id) == id \in seen

\* a formatter that takes the Arabic field whatever the direction
TakesArabicAlways(key, rtl) == endsWith(key, AR)
\* key.endsWith("Ar") && isRTL
TakesArabic(key, rtl) == endsWith(key, AR) /\ rtl

\* the value stored under baseKey for an Arabic field: the field's own value
ArabicValue(value) == value

Returned(val, seen) == [raised |-> FALSE, val |-> val, seen |-> seen]
Thrown(seen) == [raised |-> TRUE, val |-> Null, seen |-> seen]

RECURSIVE processObject(_, _, _, _, _)
RECURSIVE processItems(_, _, _, _, _, _, _)
RECURSIVE processEntries(_, _, _, _, _, _, _)

\* obj.map((item) => processObject(item))
processItems(h, rtl, items, i, acc, seen, depth) ==
  IF i > Len(items) THEN Returned(Arr(acc), seen)
  ELSE LET r == processObject(h, rtl, items[i], seen, depth + 1) IN
       IF r.raised THEN r
       ELSE processItems(h, rtl, items, i + 1, Append(acc, r.val), r.seen, depth)

\* for (const [key, value] of Object.entries(obj)) { ... }
processEntries(h, rtl, entries, i, processed, seen, depth) ==
  IF i > Len(entries) THEN Returned(Obj(processed), seen)
  ELSE LET key == entries[i].key
           value == entries[i].val
       IN IF TakesArabic(key, rtl)
          THEN processEntries(h, rtl, entries, i + 1,
                              SetProp(processed, sliceEnd(key, 2), ArabicValue(value)),
                              seen, depth)
          ELSE IF ~endsWith(key, AR)
          THEN LET r == processObject(h, rtl, value, seen, depth + 1) IN
               IF r.raised THEN r
               ELSE processEntries(h, rtl, entries, i + 1,
                                   SetProp(processed, key, r.val), r.seen, depth)
          ELSE processEntries(h, rtl, entries, i + 1, processed, seen, depth)

processObject(h, rtl, obj, seen, depth) ==
  IF depth > StackLimit THEN Thrown(seen)
  ELSE IF ~IsObjectRef(obj) THEN Returned(obj, seen)
  ELSE IF SeenHas(seen, obj.id) THEN Returned(Null, seen)
  ELSE LET seen1 == seen \cup {obj.id} IN
       IF h[obj.id].kind = "array"
       THEN processItems(h, rtl, h[obj.id].items, 1, <<>>, seen1, depth)
       ELSE processEntries(h, rtl, h[obj.id].entries, 1, <<>>, seen1, depth)

formatResponse(h, d, rtl) ==
  IF Falsy(d) THEN Returned(d, {})
  ELSE processObject(h, rtl, d, {}, 1)

(***************************************************************************)
(* The payload a handler builds, and the formatter applied to it.          *)
(***************************************************************************)
Allocated(h) == {n \in Nodes : h[n].kind # "free"}
FieldCount(h) ==
  LET RECURSIVE sum(_)
      sum(n) == IF n = 0 THEN 0
                ELSE sum(n - 1) +
                     (CASE h[n].kind = "object" -> Len(h[n].entries)
                        [] h[n].kind = "array" -> Len(h[n].items)
                        [] OTHER -> 0)
  IN sum(MaxNodes)
Values(h) == Scalars \cup {Ref(n) : n \in Allocated(h)}

NoOut == [raised |-> FALSE, val |-> Null, seen |-> {}]

(***************************************************************************)
(* The admin router's state when no admin request is modelled.             *)
(***************************************************************************)
Ids == 1..MaxIds
NoRequest == [route |-> "none", cred |-> "none", id |-> 0, value |-> "none"]
NoResponse == [code |-> 0, status |-> "none", message |-> "none"]
EmptyDb ==
  [users |-> [i \in Ids |-> "none"],
   bookings |-> [i \in Ids |-> "none"],
   contacts |-> [i \in Ids |-> "none"]]
IdleAdmin ==
  /\ db = EmptyDb
  /\ db0 = EmptyDb
  /\ areq = NoRequest
  /\ apc = 0
  /\ ares = NoResponse
  /\ trail = <<>>
  /\ touched = {}
  /\ verrors = {}

(***************************************************************************)
(* Documents, and the dashboard's state when no dashboard request is       *)
(* modelled.                                                               *)
(***************************************************************************)
Date(m, d) == [month |-> m, day |-> d]
\* a calendar of two months of two days
Dates == {Date(m, d) : m \in {1, 2}, d \in {1, 2}}
\* a >= b on dates
AtOrAfter(a, b) == a.month > b.month \/ (a.month = b.month /\ a.day >= b.day)

\* the kinds of document the dashboard tells apart: the collection and, for
\* bookings and contacts, the status and the day of creation
Plain(coll) == [coll |-> coll]
Booking(status, at) == [coll |-> "bookings", status |-> status, createdAt |-> at]
Contact(status, at) == [coll |-> "contacts", status |-> status, createdAt |-> at]
DocKinds ==
  {Plain("users"), Plain("services"), Plain("blogs")}
    \cup {Booking(s, d) : s \in {"pending", "completed"}, d \in Dates}
    \cup {Contact(s, d) : s \in {"new", "read"}, d \in Dates}
EmptyStore == [k \in DocKinds |-> 0]
NoDashboard == [sent |-> FALSE]
IdleDashboard ==
  /\ store = EmptyStore
  /\ now = Date(1, 1)
  /\ dpc = 0
  /\ results = <<>>
  /\ wrote = FALSE
  /\ created = FALSE
  /\ dres = NoDashboard
(***************************************************************************)
(* The browser's state when no page of the front end is modelled.          *)
(***************************************************************************)
NoEvent == [handled |-> FALSE]
IdleClient ==
  /\ ls = [token |-> Null, user |-> Null]
  /\ pathname = "/"
  /\ href = "none"
  /\ flight = <<>>
  /\ last = NoEvent
  /\ cleared = FALSE
\* useState({ name: "", description: "", price: "", duration: "", category: "Other" })
DefaultForm ==
  [name |-> Str(<<>>), description |-> Str(<<>>), price |-> Str(<<>>),
   duration |-> Str(<<>>), category |-> Str(<<"O", "t", "h", "e", "r">>)]
NoModalEvent == [event |-> "none"]
\* the state of a modal that has just been mounted, closed
Mounted ==
  /\ isOpen = FALSE
  /\ target = Null
  /\ loading = FALSE
  /\ formData = DefaultForm
  /\ imageFile = Null
  /\ previewUrl = Null
  /\ pending = <<>>
  /\ mlast = NoModalEvent
IdleModal == modal = "service" /\ Mounted

EmptySeedDb == [users |-> {}, services |-> {}, blogs |-> {}, bookings |-> {}, contacts |-> {}]
NoError == "none"
IdleSeed ==
  /\ sdb = EmptySeedDb
  /\ spc = 0
  /\ susers = <<>>
  /\ serr = NoError
  /\ slog = <<>>
  /\ sruns = 0
  /\ snext = 1

NoSent == [called |-> FALSE, raised |-> FALSE, val |-> Undefined]

\* no request under way
IdleRequest ==
  /\ qLang = Undefined
  /\ hLang = Undefined
  /\ language = Undefined
  /\ direction = Undefined
  /\ lpc = "start"
  /\ sent = NoSent

InitFormat ==
  /\ heap = [n \in Nodes |-> FreeNode]
  /\ fpc = "build"
  /\ data = Null
  /\ isRTL = FALSE
  /\ out = NoOut
  /\ IdleRequest
  /\ IdleAdmin
  /\ IdleDashboard
  /\ IdleClient
  /\ IdleModal
  /\ IdleSeed

\* const o = {}
NewObject ==
  /\ fpc = "build"
  /\ \E n \in Nodes :
       /\ heap[n].kind = "free"
       /\ \A m \in Nodes : m < n => heap[m].kind # "free"
       /\ heap' = [heap EXCEPT ![n] = ObjectNode(<<>>)]
  /\ UNCHANGED <<fpc, data, isRTL, out>>
  /\ UNCHANGED <<lvars, avars, dvars, cvars, mvars, svars>>

\* const a = []
NewArray ==
  /\ fpc = "build"
  /\ \E n \in Nodes :
       /\ heap[n].kind = "free"
       /\ \A m \in Nodes : m < n => heap[m].kind # "free"
       /\ heap' = [heap EXCEPT ![n] = ArrayNode(<<>>)]
  /\ UNCHANGED <<fpc, data, isRTL, out>>
  /\ UNCHANGED <<lvars, avars, dvars, cvars, mvars, svars>>

\* o[key] = v, for a key o does not have yet
SetField ==
  /\ fpc = "build"
  /\ FieldCount(heap) < MaxFields
  /\ \E n \in Nodes, key \in Keys, v \in Values(heap) :
       /\ heap[n].kind = "object"
       /\ ~HasProp(heap[n].entries, key)
       /\ heap' = [heap EXCEPT ![n] =
                     ObjectNode(Append(heap[n].entries, [key |-> key, val |-> v]))]
  /\ UNCHANGED <<fpc, data, isRTL, out>>
  /\ UNCHANGED <<lvars, avars, dvars, cvars, mvars, svars>>

\* a.push(v)
Push ==
  /\ fpc = "build"
  /\ FieldCount(heap) < MaxFields
  /\ \E n \in Nodes, v \in Values(heap) :
       /\ heap[n].kind = "array"
       /\ heap' = [heap EXCEPT ![n] = ArrayNode(Append(heap[n].items, v))]
  /\ UNCHANGED <<fpc, data, isRTL, out>>
  /\ UNCHANGED <<lvars, avars, dvars, cvars, mvars, svars>>

\* formatResponse(data, req), on the first node of the payload or on null
FormatResponse ==
  /\ fpc = "build"
  /\ \E d \in {Null} \cup {Ref(n) : n \in Allocated(heap) \cap {1}}, rtl \in BOOLEAN :
       /\ data' = d
       /\ isRTL' = rtl
       /\ out' = formatResponse(heap, d, rtl)
  /\ fpc' = "done"
  /\ UNCHANGED heap
  /\ UNCHANGED <<lvars, avars, dvars, cvars, mvars, svars>>

NextFormat == NewObject \/ NewArray \/ SetField \/ Push \/ FormatResponse

SpecFormat == InitFormat /\ [][NextFormat]_vars


(***************************************************************************)
(* rtlSupport: the language and direction of a request.                    *)
(***************************************************************************)
\* the pieces an Accept-Language header is made of: letters, the separators
\* "-" and ",", and ";q=0.9" for a quality parameter (never split)
HeaderChars == {"a", "r", "A", "-", ",", ";q=0.9"}
RECURSIVE StringsUpTo(_)
StringsUpTo(n) ==
  IF n = 0 THEN {<<>>}
  ELSE StringsUpTo(n - 1) \cup
       {Append(s, c) : s \in {t \in StringsUpTo(n - 1) : Len(t) = n - 1}, c \in HeaderChars}
\* the header absent, or any string of the bound's length
Headers == {Undefined} \cup {Str(s) : s \in StringsUpTo(MaxHeaderLen)}
\* ?lang= absent, empty, or one of a few tags
QueryLangs ==
  {Undefined, Str(<<>>), Str(<<"a", "r">>), Str(<<"A", "R">>), Str(<<"h", "e">>),
   Str(<<"f", "a">>), Str(<<"u", "r">>), Str(<<"k", "u">>), Str(<<"d", "v">>),
   Str(<<"e", "n">>), Str(<<"a", "r", "-", "E", "G">>)}

\* s.split(sep)[0]
RECURSIVE splitFirst(_, _)
splitFirst(s, sep) ==
  IF Len(s) = 0 \/ Head(s) = sep THEN <<>>
  ELSE <<Head(s)>> \o splitFirst(Tail(s), sep)

\* a || b
OrElse(a, b) == IF Falsy(a) THEN b ELSE a

\* req.headers["accept-language"]?.split(",")[0]?.split("-")[0]
HeaderLanguage(h) ==
  IF h.t = "undefined" THEN Undefined
  ELSE Str(splitFirst(splitFirst(h.v, ","), "-"))

en == Str(<<"e", "n">>)

\* req.query.lang || header's language || "en"
ResolveLanguage(q, h) == OrElse(q, OrElse(HeaderLanguage(h), en))

\* a toLowerCase that leaves the string as it is
toLowerCaseNoop(s) == s
\* String.prototype.toLowerCase, on the letters of the model
toLowerCase(s) ==
  [i \in 1..Len(s) |->
     CASE s[i] = "A" -> "a"
       [] s[i] = "R" -> "r"
       [] s[i] = "E" -> "e"
       [] s[i] = "G" -> "g"
       [] OTHER -> s[i]]

rtlLanguages ==
  <<(<<"a", "r">>), (<<"h", "e">>), (<<"f", "a">>), (<<"u", "r">>), (<<"k", "u">>),
    (<<"d", "v">>)>>

\* Array.prototype.includes
includes(list, x) == \E i \in 1..Len(list) : list[i] = x

\* rtlLanguages.includes(language.toLowerCase())
IsRtlLanguage(lang) == includes(rtlLanguages, toLowerCase(lang.v))

\* isRTL ? "rtl" : "ltr"
DirectionOf(rtl) == IF rtl THEN Str(<<"r", "t", "l">>) ELSE Str(<<"l", "t", "r">>)


(***************************************************************************)
(* formatResponseMiddleware: the patched res.json.                         *)
(***************************************************************************)
kStatus == <<"s", "t", "a", "t", "u", "s">>
kData == <<"d", "a", "t", "a">>
kMeta == <<"m", "e", "t", "a">>
kLanguage == <<"l", "a", "n", "g", "u", "a", "g", "e">>
kCode == <<"c", "o", "d", "e">>
kDirection == <<"d", "i", "r", "e", "c", "t", "i", "o", "n">>
kIsRTL == <<"i", "s", "R", "T", "L">>
sSuccess == Str(<<"s", "u", "c", "c", "e", "s", "s">>)
sError == Str(<<"e", "r", "r", "o", "r">>)

Field(k, v) == [key |-> k, val |-> v]

\* o.key, undefined when o is an array or has no such property
PropOf(o, key) ==
  IF o.t = "obj" /\ HasProp(o.entries, key) THEN GetProp(o.entries, key) ELSE Undefined

\* a language block without the direction
LanguageBlockNoDirection(lang, dir, rtl) ==
  Obj(<<Field(kCode, lang), Field(kIsRTL, Bool(rtl))>>)
\* { code: req.language, direction: req.direction, isRTL: req.isRTL }
LanguageBlock(lang, dir, rtl) ==
  Obj(<<Field(kCode, lang), Field(kDirection, dir), Field(kIsRTL, Bool(rtl))>>)

\* formattedData.status === "success" && formattedData.data
WantsLanguage(f) == PropOf(f, kStatus) = sSuccess /\ ~Falsy(PropOf(f, kData))

\* the body of the patched res.json
PatchedJson(h, d, lang, dir, rtl) ==
  IF ~Falsy(d) /\ IsObjectRef(d)
  THEN LET f == formatResponse(h, d, rtl) IN
       IF f.raised THEN [called |-> FALSE, raised |-> TRUE, val |-> Undefined]
       ELSE IF WantsLanguage(f.val)
       THEN [called |-> TRUE, raised |-> FALSE,
             val |-> Obj(SetProp(f.val.entries, kLanguage, LanguageBlock(lang, dir, rtl)))]
       ELSE [called |-> TRUE, raised |-> FALSE, val |-> f.val]
  ELSE [called |-> TRUE, raised |-> FALSE, val |-> d]

\* the payloads handlers pass to res.json: envelopes and a few other values
HeapOf(n1, n2) == [n \in Nodes |-> IF n = 1 THEN n1 ELSE IF n = 2 THEN n2 ELSE FreeNode]
Item == ObjectNode(<<Field(kN, sX), Field(kNAr, sY)>>)
Payloads ==
  { \* { status: "success", data: { n, nAr } }
    [heap |-> HeapOf(ObjectNode(<<Field(kStatus, sSuccess), Field(kData, Ref(2))>>), Item),
     data |-> Ref(1)],
    \* { data: { n, nAr }, status: "success" }
    [heap |-> HeapOf(ObjectNode(<<Field(kData, Ref(2)), Field(kStatus, sSuccess)>>), Item),
     data |-> Ref(1)],
    \* { status: "success", data: {}, language: "x" }
    [heap |-> HeapOf(ObjectNode(<<Field(kStatus, sSuccess), Field(kData, Ref(2)),
                                  Field(kLanguage, sX)>>), ObjectNode(<<>>)),
     data |-> Ref(1)],
    \* { status: "success", data: [] }
    [heap |-> HeapOf(ObjectNode(<<Field(kStatus, sSuccess), Field(kData, Ref(2))>>),
                     ArrayNode(<<>>)),
     data |-> Ref(1)],
    \* { status: "error", data: { n, nAr } }
    [heap |-> HeapOf(ObjectNode(<<Field(kStatus, sError), Field(kData, Ref(2))>>), Item),
     data |-> Ref(1)],
    \* { status: "success" }
    [heap |-> HeapOf(ObjectNode(<<Field(kStatus, sSuccess)>>), FreeNode), data |-> Ref(1)],
    \* { status: "success", data: null }
    [heap |-> HeapOf(ObjectNode(<<Field(kStatus, sSuccess), Field(kData, Null)>>), FreeNode),
     data |-> Ref(1)],
    \* { status: "success", statusAr: "x", data: { n, nAr } }
    [heap |-> HeapOf(ObjectNode(<<Field(kStatus, sSuccess), Field(kStatus \o AR, sX),
                                  Field(kData, Ref(2))>>), Item),
     data |-> Ref(1)],
    \* { status: "success", data: { n, nAr }, dataAr: null }
    [heap |-> HeapOf(ObjectNode(<<Field(kStatus, sSuccess), Field(kData, Ref(2)),
                                  Field(kData \o AR, Null)>>), Item),
     data |-> Ref(1)],
    \* p = { status: "success" }; p.data = p
    [heap |-> HeapOf(ObjectNode(<<Field(kStatus, sSuccess), Field(kData, Ref(1))>>), FreeNode),
     data |-> Ref(1)],
    \* { meta: item, status: "success", data: item }
    [heap |-> HeapOf(ObjectNode(<<Field(kMeta, Ref(2)), Field(kStatus, sSuccess),
                                  Field(kData, Ref(2))>>), Item),
     data |-> Ref(1)],
    \* [ { n, nAr } ]
    [heap |-> HeapOf(ArrayNode(<<Ref(2)>>), Item), data |-> Ref(1)],
    \* "x"
    [heap |-> HeapOf(FreeNode, FreeNode), data |-> sX],
    \* null
    [heap |-> HeapOf(FreeNode, FreeNode), data |-> Null] }

InitLang ==
  /\ heap = [n \in Nodes |-> FreeNode]
  /\ fpc = "build"
  /\ data = Null
  /\ isRTL = FALSE
  /\ out = NoOut
  /\ qLang \in QueryLangs
  /\ hLang \in Headers
  /\ language = Undefined
  /\ direction = Undefined
  /\ lpc = "start"
  /\ sent = NoSent
  /\ IdleAdmin
  /\ IdleDashboard
  /\ IdleClient
  /\ IdleModal
  /\ IdleSeed

\* rtlSupport(req, res, next)
RtlSupport ==
  /\ lpc = "start"
  /\ language' = ResolveLanguage(qLang, hLang)
  /\ isRTL' = IsRtlLanguage(language')
  /\ direction' = DirectionOf(isRTL')
  /\ lpc' = "resolved"
  /\ UNCHANGED <<heap, fpc, data, out, qLang, hLang, sent>>
  /\ UNCHANGED <<avars, dvars, cvars, mvars, svars>>

\* res.json(payload), called by a handler that runs after rtlSupport and
\* formatResponseMiddleware
ResJson ==
  /\ lpc = "resolved"
  /\ \E p \in Payloads :
       /\ heap' = p.heap
       /\ data' = p.data
       /\ sent' = PatchedJson(p.heap, p.data, language, direction, isRTL)
  /\ lpc' = "sent"
  /\ UNCHANGED <<fpc, isRTL, out, qLang, hLang, language, direction>>
  /\ UNCHANGED <<avars, dvars, cvars, mvars, svars>>

NextLang == RtlSupport \/ ResJson

SpecLang == InitLang /\ [][NextLang]_vars

(***************************************************************************)
(* routes/admin.js: the admin router.  One request is served at a time.    *)
(***************************************************************************)
Routes ==
  {"dashboard", "users", "user", "userRole", "bookings", "bookingStatus",
   "contacts", "contactStatus", "health"}
\* the bearer credential of a request: none, or a token with a role claim
Creds == {"none", "user", "admin"}

\* body("role").isIn([...]), body("status").isIn([...])
UserRoles == {"user", "admin"}
BookingStatuses == {"pending", "confirmed", "in-progress", "completed", "cancelled"}
ContactStatuses == {"new", "read", "replied", "closed"}
\* the values requests carry in body.role / body.status: one of the route's
\* list and one that is in no list
BodyValues(route) ==
  CASE route = "userRole" -> {"admin", "bogus"}
    [] route = "bookingStatus" -> {"confirmed", "bogus"}
    [] route = "contactStatus" -> {"closed", "bogus"}
    [] OTHER -> {"none"}
Allowed(route) ==
  CASE route = "userRole" -> UserRoles
    [] route = "bookingStatus" -> BookingStatuses
    [] route = "contactStatus" -> ContactStatuses
    [] OTHER -> {"none"}

\* the validation chains a route lists before its handler
RouteValidators(route) ==
  IF route \in {"userRole", "bookingStatus", "contactStatus"} THEN <<"validate">> ELSE <<>>

\* a router that mounts protect only
RouterStackNoAuthorize(route) == <<"protect">> \o RouteValidators(route) \o <<"handler">>
\* router.use(protect, authorize("admin")), then the route's own stack
RouterStack(route) == <<"protect", "authorize">> \o RouteValidators(route) \o <<"handler">>

\* the step of the stack the request is at
AtStep(step) ==
  /\ apc > 0
  /\ apc <= Len(RouterStack(areq.route))
  /\ RouterStack(areq.route)[apc] = step

Ran(step, ok) == [step |-> step, ok |-> ok]
Success == [code |-> 200, status |-> "success", message |-> "none"]
\* what the central error handler sends for next(new AppError(message, code))
ErrorResponse(message, code) == [code |-> code, status |-> "fail", message |-> message]

\* protect lets a request with a bearer credential through
ProtectPasses(req) == req.cred # "none"
\* authorize("admin") lets a request whose role claim is admin through
AuthorizePasses(req) == req.cred = "admin"
\* document.save(): the storage layer keeps the value it is given
Saved(collection, value) == value

InitAdmin ==
  /\ heap = [n \in Nodes |-> FreeNode]
  /\ fpc = "build"
  /\ data = Null
  /\ isRTL = FALSE
  /\ out = NoOut
  /\ IdleRequest
  /\ db \in [users : [Ids -> {"none", "user"}],
             bookings : [Ids -> {"none", "pending"}],
             contacts : [Ids -> {"none", "new"}]]
  /\ db0 = db
  /\ areq = NoRequest
  /\ apc = 0
  /\ ares = NoResponse
  /\ trail = <<>>
  /\ touched = {}
  /\ verrors = {}
  /\ IdleDashboard
  /\ IdleClient
  /\ IdleModal
  /\ IdleSeed

\* a request reaches the router
Receive ==
  /\ apc = 0 /\ ares.code = 0
  /\ \E route \in Routes, cred \in Creds, id \in Ids :
       \E value \in BodyValues(route) :
         areq' = [route |-> route, cred |-> cred, id |-> id, value |-> value]
  /\ apc' = 1
  /\ db0' = db
  /\ ares' = NoResponse
  /\ trail' = <<>>
  /\ touched' = {}
  /\ verrors' = {}
  /\ UNCHANGED db
  /\ UNCHANGED <<fvars, lvars, dvars, cvars, mvars, svars>>

\* protect
Protect ==
  /\ AtStep("protect")
  /\ IF ProtectPasses(areq)
     THEN /\ trail' = Append(trail, Ran("protect", TRUE))
          /\ apc' = apc + 1
          /\ UNCHANGED ares
     ELSE /\ trail' = Append(trail, Ran("protect", FALSE))
          /\ apc' = 0
          /\ ares' = ErrorResponse("Not authorized", 401)
  /\ UNCHANGED <<db, db0, areq, touched, verrors>>
  /\ UNCHANGED <<fvars, lvars, dvars, cvars, mvars, svars>>

\* authorize("admin")
Authorize ==
  /\ AtStep("authorize")
  /\ IF AuthorizePasses(areq)
     THEN /\ trail' = Append(trail, Ran("authorize", TRUE))
          /\ apc' = apc + 1
          /\ UNCHANGED ares
     ELSE /\ trail' = Append(trail, Ran("authorize", FALSE))
          /\ apc' = 0
          /\ ares' = ErrorResponse("Forbidden", 403)
  /\ UNCHANGED <<db, db0, areq, touched, verrors>>
  /\ UNCHANGED <<fvars, lvars, dvars, cvars, mvars, svars>>

\* body(field).isIn(list).withMessage(message): the chain records its error
\* on the request and calls next
Validate ==
  /\ AtStep("validate")
  /\ verrors' = IF areq.value \in Allowed(areq.route) THEN {}
                ELSE {IF areq.route = "userRole" THEN "Invalid role" ELSE "Invalid status"}
  /\ trail' = Append(trail, Ran("validate", areq.value \in Allowed(areq.route)))
  /\ apc' = apc + 1
  /\ UNCHANGED <<db, db0, areq, ares, touched>>
  /\ UNCHANGED <<fvars, lvars, dvars, cvars, mvars, svars>>

\* a findById that finds a document under every id
StoredAlways(v) == TRUE
\* findById found a document
Stored(v) == v # "none"

\* the handler's part that every handler shares
Handled(response, accesses) ==
  /\ trail' = Append(trail, Ran("handler", TRUE))
  /\ ares' = response
  /\ touched' = touched \cup accesses
  /\ apc' = 0
  /\ UNCHANGED <<db0, areq, verrors>>
  /\ UNCHANGED <<fvars, lvars, dvars, cvars, mvars, svars>>

\* GET /dashboard, as the router sees it: one response; its queries are the
\* actions of SpecDashboard
GetDashboard ==
  /\ AtStep("handler") /\ areq.route = "dashboard"
  /\ Handled(Success, {"read"})
  /\ UNCHANGED db

\* GET /users, GET /bookings, GET /contacts
GetList ==
  /\ AtStep("handler") /\ areq.route \in {"users", "bookings", "contacts"}
  /\ Handled(Success, {"read"})
  /\ UNCHANGED db

\* GET /users/:id
GetUser ==
  /\ AtStep("handler") /\ areq.route = "user"
  /\ IF Stored(db.users[areq.id])
     THEN Handled(Success, {"read"})
     ELSE Handled(ErrorResponse("User not found", 404), {"read"})
  /\ UNCHANGED db

\* PUT /users/:id/role
PutUserRole ==
  /\ AtStep("handler") /\ areq.route = "userRole"
  /\ IF Stored(db.users[areq.id])
     THEN /\ db' = [db EXCEPT !.users[areq.id] = Saved("users", areq.value)]
          /\ Handled(Success, {"read", "write"})
     ELSE /\ Handled(ErrorResponse("User not found", 404), {"read"})
          /\ UNCHANGED db

\* PUT /bookings/:id/status
PutBookingStatus ==
  /\ AtStep("handler") /\ areq.route = "bookingStatus"
  /\ IF Stored(db.bookings[areq.id])
     THEN /\ db' = [db EXCEPT !.bookings[areq.id] = Saved("bookings", areq.value)]
          /\ Handled(Success, {"read", "write"})
     ELSE /\ Handled(ErrorResponse("Booking not found", 404), {"read"})
          /\ UNCHANGED db

\* PUT /contacts/:id/status
PutContactStatus ==
  /\ AtStep("handler") /\ areq.route = "contactStatus"
  /\ IF Stored(db.contacts[areq.id])
     THEN /\ db' = [db EXCEPT !.contacts[areq.id] = Saved("contacts", areq.value)]
          /\ Handled(Success, {"read", "write"})
     ELSE /\ Handled(ErrorResponse("Contact not found", 404), {"read"})
          /\ UNCHANGED db

\* GET /health
GetHealth ==
  /\ AtStep("handler") /\ areq.route = "health"
  /\ Handled(Success, {})
  /\ UNCHANGED db

\* the response is out and the request is over
Finish ==
  /\ apc = 0 /\ ares.code # 0
  /\ areq' = NoRequest
  /\ ares' = NoResponse
  /\ db0' = db
  /\ trail' = <<>>
  /\ touched' = {}
  /\ verrors' = {}
  /\ UNCHANGED <<db, apc>>
  /\ UNCHANGED <<fvars, lvars, dvars, cvars, mvars, svars>>

NextAdmin ==
  \/ Receive \/ Protect \/ Authorize \/ Validate \/ Finish
  \/ GetDashboard \/ GetList \/ GetUser \/ PutUserRole
  \/ PutBookingStatus \/ PutContactStatus \/ GetHealth

SpecAdmin == InitAdmin /\ [][NextAdmin]_vars

(***************************************************************************)
(* routes/admin.js, GET /dashboard: the queries of the handler, one at a   *)
(* time, while other requests update bookings and contacts.                *)
(***************************************************************************)
\* .limit(5)
RecentLimit == 5

RECURSIVE SumOver(_, _)
SumOver(s, kinds) ==
  IF kinds = {} THEN 0
  ELSE LET k == CHOOSE x \in kinds : TRUE IN s[k] + SumOver(s, kinds \ {k})

\* the databases of at most n documents
RECURSIVE StoresUpTo(_)
StoresUpTo(n) ==
  IF n = 0 THEN {EmptyStore}
  ELSE StoresUpTo(n - 1) \cup
       {[s EXCEPT ![k] = @ + 1] : s \in StoresUpTo(n - 1), k \in DocKinds}
\* no document was created after today
CreatedBy(s, t) ==
  \A k \in DocKinds : (s[k] > 0 /\ k.coll \in {"bookings", "contacts"}) => AtOrAfter(t, k.createdAt)

\* a document against a filter { status: ..., createdAt: { $gte: ... } }, each
\* of the two conditions optional
Matches(k, filter) ==
  /\ "status" \in DOMAIN filter => k.status = filter.status
  /\ "createdAt" \in DOMAIN filter => AtOrAfter(k.createdAt, filter.createdAt.gte)
\* Model.countDocuments(filter); <<>> is the filter without conditions
countDocuments(s, coll, filter) ==
  SumOver(s, {k \in DocKinds : k.coll = coll /\ Matches(k, filter)})
\* .limit(n) on a list of the given length
limit(length, n) == IF length < n THEN length ELSE n

\* new Date(today.setHours(0, 0, 0, 0))
StartOfToday(today) == today
\* a start of month that is the start of today
StartOfMonthIsToday(today) == today
\* new Date(today.getFullYear(), today.getMonth(), 1)
StartOfMonth(today) == Date(today.month, 1)

\* the i-th query of the handler, answered on database s; a list is modelled
\* by its length, and every booking's actualCost is one unit
Query(i, s, today) ==
  CASE i = 1 -> countDocuments(s, "users", <<>>)
    [] i = 2 -> countDocuments(s, "services", <<>>)
    [] i = 3 -> countDocuments(s, "blogs", <<>>)
    [] i = 4 -> countDocuments(s, "contacts", <<>>)
    [] i = 5 -> countDocuments(s, "contacts", [status |-> "new"])
    [] i = 6 -> countDocuments(s, "bookings", <<>>)
    [] i = 7 -> countDocuments(s, "bookings", [status |-> "pending"])
    [] i = 8 -> countDocuments(s, "bookings", [createdAt |-> [gte |-> StartOfMonth(today)]])
    [] i = 9 -> LET total == countDocuments(s, "bookings",
                               [status |-> "completed",
                                createdAt |-> [gte |-> StartOfMonth(today)]])
                IN IF total = 0 THEN <<>> ELSE <<[total |-> total]>>
    [] i = 10 -> limit(countDocuments(s, "bookings",
                                      [createdAt |-> [gte |-> StartOfToday(today)]]),
                       RecentLimit)
    [] i = 11 -> limit(countDocuments(s, "contacts", [status |-> "new"]), RecentLimit)
    [] i = 12 -> countDocuments(s, "contacts", [createdAt |-> [gte |-> StartOfMonth(today)]])

\* liveData with the two booking counts taken in each other's place
LiveDataSwapped(r) ==
  [sent |-> TRUE,
   status |-> "success",
   overview |-> [totalUsers |-> r[1], totalServices |-> r[2], totalBlogs |-> r[3],
                 totalContacts |-> r[4], newContacts |-> r[5], totalBookings |-> r[7],
                 pendingBookings |-> r[6]],
   monthly |-> [bookings |-> r[8],
                revenue |-> IF Len(r[9]) > 0 THEN r[9][1].total ELSE 0,
                contacts |-> r[12]],
   recent |-> [bookings |-> r[10], contacts |-> r[11]]]
\* liveData
LiveData(r) ==
  [sent |-> TRUE,
   status |-> "success",
   overview |-> [totalUsers |-> r[1], totalServices |-> r[2], totalBlogs |-> r[3],
                 totalContacts |-> r[4], newContacts |-> r[5], totalBookings |-> r[6],
                 pendingBookings |-> r[7]],
   monthly |-> [bookings |-> r[8],
                revenue |-> IF Len(r[9]) > 0 THEN r[9][1].total ELSE 0,
                contacts |-> r[12]],
   recent |-> [bookings |-> r[10], contacts |-> r[11]]]

InitDashboard ==
  /\ heap = [n \in Nodes |-> FreeNode]
  /\ fpc = "build"
  /\ data = Null
  /\ isRTL = FALSE
  /\ out = NoOut
  /\ IdleRequest
  /\ IdleAdmin
  /\ now \in Dates
  /\ store \in {s \in StoresUpTo(MaxDocs) : CreatedBy(s, now)}
  /\ dpc = 0
  /\ results = <<>>
  /\ wrote = FALSE
  /\ created = FALSE
  /\ dres = NoDashboard
  /\ IdleClient
  /\ IdleModal
  /\ IdleSeed

\* the handler is entered
DashboardStart ==
  /\ dpc = 0
  /\ dpc' = 1
  /\ results' = <<>>
  /\ wrote' = FALSE
  /\ created' = FALSE
  /\ dres' = NoDashboard
  /\ UNCHANGED <<store, now>>
  /\ UNCHANGED <<fvars, lvars, avars, cvars, mvars, svars>>

\* the database answers the next query of the Promise.all batch
DashboardQuery ==
  /\ dpc \in 1..11
  /\ results' = Append(results, Query(dpc, store, now))
  /\ dpc' = dpc + 1
  /\ UNCHANGED <<store, now, wrote, created, dres>>
  /\ UNCHANGED <<fvars, lvars, avars, cvars, mvars, svars>>

\* await Contact.countDocuments({ createdAt: { $gte: startOfMonth } }), issued
\* once the batch has resolved
DashboardMonthlyContacts ==
  /\ dpc = 12
  /\ results' = Append(results, Query(12, store, now))
  /\ dpc' = 13
  /\ UNCHANGED <<store, now, wrote, created, dres>>
  /\ UNCHANGED <<fvars, lvars, avars, cvars, mvars, svars>>

\* res.status(200).json({ status: "success", data: liveData })
DashboardRespond ==
  /\ dpc = 13
  /\ dres' = LiveData(results)
  /\ dpc' = 14
  /\ UNCHANGED <<store, now, results, wrote, created>>
  /\ UNCHANGED <<fvars, lvars, avars, cvars, mvars, svars>>

\* the response is out and the request is over
DashboardFinish ==
  /\ dpc = 14
  /\ dpc' = 0
  /\ results' = <<>>
  /\ wrote' = FALSE
  /\ created' = FALSE
  /\ dres' = NoDashboard
  /\ UNCHANGED <<store, now>>
  /\ UNCHANGED <<fvars, lvars, avars, cvars, mvars, svars>>

\* PUT /bookings/:id/status of another request: booking.status = ...; save()
SaveBookingStatus ==
  /\ \E k \in DocKinds, status \in {"pending", "completed"} :
       /\ k.coll = "bookings" /\ store[k] > 0 /\ k.status # status
       /\ store' = [store EXCEPT ![k] = @ - 1, ![Booking(status, k.createdAt)] = @ + 1]
  /\ wrote' = (dpc # 0)
  /\ UNCHANGED <<now, dpc, results, created, dres>>
  /\ UNCHANGED <<fvars, lvars, avars, cvars, mvars, svars>>

\* PUT /contacts/:id/status of another request: contact.status = ...; save()
SaveContactStatus ==
  /\ \E k \in DocKinds, status \in {"new", "read"} :
       /\ k.coll = "contacts" /\ store[k] > 0 /\ k.status # status
       /\ store' = [store EXCEPT ![k] = @ - 1, ![Contact(status, k.createdAt)] = @ + 1]
  /\ wrote' = (dpc # 0)
  /\ UNCHANGED <<now, dpc, results, created, dres>>
  /\ UNCHANGED <<fvars, lvars, avars, cvars, mvars, svars>>

\* POST /api/bookings of another request: a booking is stored, created now and
\* pending
CreateBooking ==
  /\ SumOver(store, DocKinds) < MaxDocs
  /\ store' = [store EXCEPT ![Booking("pending", now)] = @ + 1]
  /\ wrote' = (dpc # 0)
  /\ created' = (dpc # 0)
  /\ UNCHANGED <<now, dpc, results, dres>>
  /\ UNCHANGED <<fvars, lvars, avars, cvars, mvars, svars>>

\* POST /api/contact of another request: a contact message is stored, created
\* now and new
CreateContact ==
  /\ SumOver(store, DocKinds) < MaxDocs
  /\ store' = [store EXCEPT ![Contact("new", now)] = @ + 1]
  /\ wrote' = (dpc # 0)
  /\ created' = (dpc # 0)
  /\ UNCHANGED <<now, dpc, results, dres>>
  /\ UNCHANGED <<fvars, lvars, avars, cvars, mvars, svars>>

NextDashboard ==
  \/ DashboardStart \/ DashboardQuery \/ DashboardMonthlyContacts \/ DashboardRespond
  \/ DashboardFinish \/ SaveBookingStatus \/ SaveContactStatus
  \/ CreateBooking \/ CreateContact

SpecDashboard == InitDashboard /\ [][NextDashboard]_vars

(***************************************************************************)
(* The API client: the axios instance and its two interceptors.            *)
(***************************************************************************)
\* the values of the localStorage entries: getItem gives null for no entry
TokenValues == {Null, Str(<<>>), Str(<<"t", "1">>), Str(<<"t", "2">>)}
UserValues == {Null, Str(<<"u">>)}
Paths == {"/login", "/", "/admin"}

\* if (token)
HasTokenNonNull(token) == token # Null
HasToken(token) == ~Falsy(token)

\* `Bearer ${token}`
Bearer(token) == Str(<<"B", "e", "a", "r", "e", "r", " ">> \o token.v)

\* the request interceptor: config.headers after it ran
RequestHeaders(token) ==
  [Authorization |-> IF HasToken(token) THEN Bearer(token) ELSE Undefined]

\* what an error carries: a response with a status, or no response at all
\* (network failure, timeout)
Errors ==
  {[response |-> Undefined]}
    \cup {[response |-> [status |-> st]] : st \in {400, 401, 403, 404, 500}}

\* error.response?.status === 401
Is401(error) == error.response # Undefined /\ error.response.status = 401
\* a check that sees every path as another page than the login page
NotOnLoginAlways(path) == TRUE
\* window.location.pathname !== "/login"
NotOnLogin(path) == path # "/login"

InitClient ==
  /\ heap = [n \in Nodes |-> FreeNode]
  /\ fpc = "build"
  /\ data = Null
  /\ isRTL = FALSE
  /\ out = NoOut
  /\ IdleRequest
  /\ IdleAdmin
  /\ IdleDashboard
  /\ ls \in [token : TokenValues, user : UserValues]
  /\ pathname \in Paths
  /\ href = "none"
  /\ flight = <<>>
  /\ last = NoEvent
  /\ cleared = FALSE
  /\ IdleModal
  /\ IdleSeed

\* the page stores or removes the token and the user (login, logout)
SetItems ==
  /\ \E t \in TokenValues, u \in UserValues :
       /\ ls' = [token |-> t, user |-> u]
       /\ ls' # ls
       /\ cleared' = IF t = ls.token THEN cleared ELSE IF t = Null THEN cleared ELSE FALSE
  /\ last' = NoEvent
  /\ UNCHANGED <<pathname, href, flight>>
  /\ UNCHANGED <<fvars, lvars, avars, dvars, mvars, svars>>

\* the page's router shows another page
RouteTo ==
  /\ \E p \in Paths : pathname' = p /\ p # pathname
  /\ last' = NoEvent
  /\ UNCHANGED <<ls, href, flight, cleared>>
  /\ UNCHANGED <<fvars, lvars, avars, dvars, mvars, svars>>

\* api.get / api.post / ...: the request interceptor runs and the request is sent
SendRequest ==
  /\ Len(flight) < MaxInFlight
  /\ flight' = Append(flight, [headers |-> RequestHeaders(ls.token),
                               token |-> ls.token,
                               cleared |-> cleared])
  /\ last' = NoEvent
  /\ UNCHANGED <<ls, pathname, href, cleared>>
  /\ UNCHANGED <<fvars, lvars, avars, dvars, mvars, svars>>

Without(seq, i) == [j \in 1..(Len(seq) - 1) |-> IF j < i THEN seq[j] ELSE seq[j + 1]]

\* a request gets a 2xx response: (response) => response
ResponseOk ==
  /\ \E i \in 1..Len(flight) : flight' = Without(flight, i)
  /\ last' = [handled |-> TRUE, error |-> FALSE, rejected |-> FALSE,
              path |-> pathname, lsBefore |-> ls, hrefBefore |-> href]
  /\ UNCHANGED <<ls, pathname, href, cleared>>
  /\ UNCHANGED <<fvars, lvars, avars, dvars, mvars, svars>>

\* a request fails: the error handler of the response interceptor
ResponseError ==
  /\ \E i \in 1..Len(flight), error \in Errors :
       /\ flight' = Without(flight, i)
       /\ IF Is401(error) /\ NotOnLogin(pathname)
          THEN /\ ls' = [token |-> Null, user |-> Null]
               /\ href' = "/login"
               /\ cleared' = TRUE
          ELSE UNCHANGED <<ls, href, cleared>>
       /\ last' = [handled |-> TRUE, error |-> TRUE, rejected |-> TRUE,
                   status |-> IF error.response = Undefined THEN 0
                              ELSE error.response.status,
                   path |-> pathname, lsBefore |-> ls, hrefBefore |-> href]
  /\ UNCHANGED pathname
  /\ UNCHANGED <<fvars, lvars, avars, dvars, mvars, svars>>

\* the navigation started through window.location.href loads its page: the
\* document that sent the requests is gone, and its requests with it
PageLoads ==
  /\ href # "none"
  /\ pathname' = href
  /\ href' = "none"
  /\ flight' = <<>>
  /\ last' = NoEvent
  /\ UNCHANGED <<ls, cleared>>
  /\ UNCHANGED <<fvars, lvars, avars, dvars, mvars, svars>>

NextClient == SetItems \/ RouteTo \/ SendRequest \/ ResponseOk \/ ResponseError \/ PageLoads

SpecClient == InitClient /\ [][NextClient]_vars

(***************************************************************************)
(* ServiceModal and ContactModal.  The parent keeps the modal mounted and  *)
(* shows it through isOpen; onClose makes the parent close it.             *)
(***************************************************************************)
FormFields == {"name", "description", "price", "duration", "category"}
\* what the user types into a field
Typed == {Str(<<>>), Str(<<"z">>)}
ServiceWith(id, images) ==
  [_id |-> id, name |-> Str(<<"a">>), description |-> Str(<<"b">>), price |-> Str(<<"1">>),
   duration |-> Str(<<"2">>), category |-> Str(<<"E", "n", "g", "i", "n", "e">>),
   images |-> images]
\* the values of serviceToEdit: none (Add mode), a service with an image, a
\* service without one
Services == {Null, ServiceWith(1, <<[url |-> Str(<<"u">>)]>>), ServiceWith(2, <<>>)}
\* the values of contact
Contacts == {[_id |-> 1, status |-> "new"], [_id |-> 1, status |-> "closed"]}
\* ['new', 'in-progress', 'resolved', 'closed'].map(...)
StatusButtons == {"new", "in-progress", "resolved", "closed"}
\* URL.createObjectURL(file)
createObjectURL(file) == Str(<<"b", "l", "o", "b", ":">> \o file.v)

\* an effect that populates the form in Edit mode and does nothing in Add mode
UseEffectEditOnly(open, service, form, file, preview) ==
  IF open /\ service # Null
  THEN [formData |-> [f \in FormFields |-> service[f]], imageFile |-> file,
        previewUrl |-> preview]
  ELSE [formData |-> form, imageFile |-> file, previewUrl |-> preview]
\* useEffect(() => { if (isOpen) { ... } }, [isOpen, serviceToEdit])
UseEffect(open, service, form, file, preview) ==
  IF ~open THEN [formData |-> form, imageFile |-> file, previewUrl |-> preview]
  ELSE IF service # Null
  THEN [formData |-> [f \in FormFields |-> service[f]],
        imageFile |-> file,
        previewUrl |-> IF Len(service.images) > 0 THEN service.images[1].url ELSE preview]
  ELSE [formData |-> DefaultForm, imageFile |-> Null, previewUrl |-> Null]

\* a submit control that is never disabled
SubmitDisabledNever(isLoading, current, status) == FALSE
\* disabled={loading} / disabled={loading || contact.status === status}
SubmitDisabled(isLoading, current, status) == isLoading \/ current = status

\* the callbacks a handler calls once its request has resolved ...
OnResolved == <<"onSuccess", "onClose">>
\* a handler that closes the modal when its request has failed
OnRejectedCloses == <<"onClose">>
\* ... and once it has failed
OnRejected == <<>>

InitModal ==
  /\ heap = [n \in Nodes |-> FreeNode]
  /\ fpc = "build"
  /\ data = Null
  /\ isRTL = FALSE
  /\ out = NoOut
  /\ IdleRequest
  /\ IdleAdmin
  /\ IdleDashboard
  /\ IdleClient
  /\ modal \in {"service", "contact"}
  /\ Mounted
  /\ IdleSeed

\* the parent shows ServiceModal, in Add mode or for a service
OpenServiceModal ==
  /\ modal = "service" /\ ~isOpen
  /\ \E service \in Services :
       LET e == UseEffect(TRUE, service, formData, imageFile, previewUrl) IN
       /\ target' = service
       /\ formData' = e.formData
       /\ imageFile' = e.imageFile
       /\ previewUrl' = e.previewUrl
  /\ isOpen' = TRUE
  /\ mlast' = [event |-> "opened"]
  /\ UNCHANGED <<modal, loading, pending>>
  /\ UNCHANGED <<fvars, lvars, avars, dvars, cvars, svars>>

\* the parent shows ContactModal for a contact
OpenContactModal ==
  /\ modal = "contact" /\ ~isOpen
  /\ \E contact \in Contacts : target' = contact
  /\ isOpen' = TRUE
  /\ mlast' = [event |-> "opened"]
  /\ UNCHANGED <<modal, loading, formData, imageFile, previewUrl, pending>>
  /\ UNCHANGED <<fvars, lvars, avars, dvars, cvars, svars>>

\* the close button: onClick={onClose}
CloseButton ==
  /\ isOpen
  /\ isOpen' = FALSE
  /\ mlast' = NoModalEvent
  /\ UNCHANGED <<modal, target, loading, formData, imageFile, previewUrl, pending>>
  /\ UNCHANGED <<fvars, lvars, avars, dvars, cvars, svars>>

\* handleChange
HandleChange ==
  /\ modal = "service" /\ isOpen
  /\ \E field \in FormFields, value \in Typed :
       /\ formData[field] # value
       /\ formData' = [formData EXCEPT ![field] = value]
  /\ mlast' = NoModalEvent
  /\ UNCHANGED <<modal, isOpen, target, loading, imageFile, previewUrl, pending>>
  /\ UNCHANGED <<fvars, lvars, avars, dvars, cvars, svars>>

\* handleFileChange, with a file chosen
HandleFileChange ==
  /\ modal = "service" /\ isOpen
  /\ imageFile' = Str(<<"f">>)
  /\ previewUrl' = createObjectURL(Str(<<"f">>))
  /\ mlast' = NoModalEvent
  /\ UNCHANGED <<modal, isOpen, target, loading, formData, pending>>
  /\ UNCHANGED <<fvars, lvars, avars, dvars, cvars, svars>>

\* handleSubmit, up to its await: the request carries the form's fields and
\* the file, which play no part in what follows
HandleSubmit ==
  /\ modal = "service" /\ isOpen
  /\ ~SubmitDisabled(loading, "none", "submit")
  /\ Len(pending) < MaxInFlight
  /\ loading' = TRUE
  /\ pending' = Append(pending, IF target # Null
                                THEN [op |-> "update", id |-> target._id]
                                ELSE [op |-> "create", id |-> 0])
  /\ mlast' = NoModalEvent
  /\ UNCHANGED <<modal, isOpen, target, formData, imageFile, previewUrl>>
  /\ UNCHANGED <<fvars, lvars, avars, dvars, cvars, svars>>

\* handleStatusChange(newStatus), up to its await
HandleStatusChange ==
  /\ modal = "contact" /\ isOpen
  /\ Len(pending) < MaxInFlight
  /\ \E status \in StatusButtons :
       /\ ~SubmitDisabled(loading, target.status, status)
       /\ pending' = Append(pending, [op |-> "updateStatus", id |-> target._id,
                                      status |-> status])
  /\ loading' = TRUE
  /\ mlast' = NoModalEvent
  /\ UNCHANGED <<modal, isOpen, target, formData, imageFile, previewUrl>>
  /\ UNCHANGED <<fvars, lvars, avars, dvars, cvars, svars>>

\* the rest of a handler once its request has settled: the callbacks, then
\* finally { setLoading(false) }
Settles(event, calls) ==
  /\ pending # <<>>
  /\ pending' = Tail(pending)
  /\ isOpen' = IF \E i \in 1..Len(calls) : calls[i] = "onClose" THEN FALSE ELSE isOpen
  /\ loading' = FALSE
  /\ mlast' = [event |-> event, calls |-> calls, openBefore |-> isOpen]
  /\ UNCHANGED <<modal, target, formData, imageFile, previewUrl>>
  /\ UNCHANGED <<fvars, lvars, avars, dvars, cvars, svars>>

\* handleSubmit / handleStatusChange after the awaited request resolved
RequestResolves == Settles("resolved", OnResolved)
\* handleSubmit's / handleStatusChange's catch
RequestRejects == Settles("rejected", OnRejected)

NextModal ==
  \/ OpenServiceModal \/ OpenContactModal \/ CloseButton
  \/ HandleChange \/ HandleFileChange \/ HandleSubmit \/ HandleStatusChange
  \/ RequestResolves \/ RequestRejects

SpecModal == InitModal /\ [][NextModal]_vars

(***************************************************************************)
(* The seed script: seedDatabase, one await at a time.                     *)
(***************************************************************************)
\* sampleData, each document by the fields that tell it apart
sampleData ==
  [users |-> <<[email |-> "admin@autologic.com", role |-> "admin"],
               [email |-> "ahmed@example.com", role |-> "user"],
               [email |-> "sarah@example.com", role |-> "user"]>>,
   services |-> <<[name |-> "Engine Repair"], [name |-> "Transmission Service"],
                  [name |-> "Brake System"]>>,
   blogs |-> <<[title |-> "10 Essential Car Maintenance Tips", author |-> Null]>>]

\* documents the database may hold before the script runs
OldDocs ==
  [users |-> {[_id |-> -1, email |-> "admin@autologic.com", role |-> "admin"],
              [_id |-> -2, email |-> "old@example.com", role |-> "user"]},
   services |-> {[_id |-> -1, name |-> "Engine Repair"]},
   blogs |-> {[_id |-> -1, title |-> "Old post", author |-> -1]},
   bookings |-> {[_id |-> -1, status |-> "pending"]},
   contacts |-> {[_id |-> -1, status |-> "new"]}]

\* the awaits of seedDatabase in program order: five deleteMany, then a save
\* for each sample user, service and blog
Deletions == <<"users", "services", "blogs", "bookings", "contacts">>
FirstUser == Len(Deletions) + 1
FirstService == FirstUser + Len(sampleData.users)
FirstBlog == FirstService + Len(sampleData.services)
SeedDone == FirstBlog + Len(sampleData.blogs)

\* a deleteMany that deletes nothing
deleteManyNothing(docs) == docs
\* Model.deleteMany({})
deleteMany(docs) == {}
\* new Model(fields) and save(): the document gets a fresh _id
Document(fields, id) ==
  [f \in DOMAIN fields \cup {"_id"} |-> IF f = "_id" THEN id ELSE fields[f]]
\* users.find((u) => u.role === "admin")
FindAdmin(users) ==
  IF \E i \in 1..Len(users) : users[i].role = "admin"
  THEN users[CHOOSE i \in 1..Len(users) :
               /\ users[i].role = "admin"
               /\ \A j \in 1..(i - 1) : users[j].role # "admin"]
  ELSE Undefined

InitSeed ==
  /\ heap = [n \in Nodes |-> FreeNode]
  /\ fpc = "build"
  /\ data = Null
  /\ isRTL = FALSE
  /\ out = NoOut
  /\ IdleRequest
  /\ IdleAdmin
  /\ IdleDashboard
  /\ IdleClient
  /\ IdleModal
  /\ sdb \in [users : SUBSET OldDocs.users, services : SUBSET OldDocs.services,
              blogs : SUBSET OldDocs.blogs, bookings : SUBSET OldDocs.bookings,
              contacts : SUBSET OldDocs.contacts]
  /\ spc = 0
  /\ susers = <<>>
  /\ serr = NoError
  /\ slog = <<>>
  /\ sruns = 0
  /\ snext = 1

\* seedDatabase() is called
SeedStart ==
  /\ spc \in {0, SeedDone}
  /\ sruns < MaxRuns
  /\ sruns' = sruns + 1
  /\ spc' = 1
  /\ susers' = <<>>
  /\ serr' = NoError
  /\ slog' = <<>>
  /\ UNCHANGED <<sdb, snext>>
  /\ UNCHANGED <<fvars, lvars, avars, dvars, cvars, mvars>>

\* await Model.deleteMany({})
SeedDelete ==
  /\ spc \in 1..Len(Deletions)
  /\ sdb' = [sdb EXCEPT ![Deletions[spc]] = deleteMany(@)]
  /\ slog' = Append(slog, [op |-> "deleteMany", coll |-> Deletions[spc]])
  /\ spc' = spc + 1
  /\ UNCHANGED <<susers, serr, sruns, snext>>
  /\ UNCHANGED <<fvars, lvars, avars, dvars, cvars, mvars>>

\* const user = new User(userData); await user.save(); users.push(user)
SeedSaveUser ==
  /\ spc \in FirstUser..(FirstService - 1)
  /\ LET user == Document(sampleData.users[spc - FirstUser + 1], snext) IN
       /\ sdb' = [sdb EXCEPT !.users = @ \cup {user}]
       /\ susers' = Append(susers, user)
  /\ slog' = Append(slog, [op |-> "save", coll |-> "users"])
  /\ snext' = snext + 1
  /\ spc' = spc + 1
  /\ UNCHANGED <<serr, sruns>>
  /\ UNCHANGED <<fvars, lvars, avars, dvars, cvars, mvars>>

\* const service = new Service(serviceData); await service.save()
SeedSaveService ==
  /\ spc \in FirstService..(FirstBlog - 1)
  /\ sdb' = [sdb EXCEPT !.services =
               @ \cup {Document(sampleData.services[spc - FirstService + 1], snext)}]
  /\ slog' = Append(slog, [op |-> "save", coll |-> "services"])
  /\ snext' = snext + 1
  /\ spc' = spc + 1
  /\ UNCHANGED <<susers, serr, sruns>>
  /\ UNCHANGED <<fvars, lvars, avars, dvars, cvars, mvars>>

\* const blog = new Blog({ ...blogData, author: adminUser._id }); await blog.save()
SeedSaveBlog ==
  /\ spc \in FirstBlog..(SeedDone - 1)
  /\ LET adminUser == FindAdmin(susers) IN
       IF adminUser = Undefined
       THEN /\ serr' = "TypeError"
            /\ spc' = SeedDone
            /\ UNCHANGED <<sdb, slog, snext>>
       ELSE /\ sdb' = [sdb EXCEPT !.blogs =
                         @ \cup {Document([sampleData.blogs[spc - FirstBlog + 1]
                                             EXCEPT !.author = adminUser._id], snext)}]
            /\ slog' = Append(slog, [op |-> "save", coll |-> "blogs"])
            /\ snext' = snext + 1
            /\ spc' = spc + 1
            /\ UNCHANGED serr
  /\ UNCHANGED <<susers, sruns>>
  /\ UNCHANGED <<fvars, lvars, avars, dvars, cvars, mvars>>

\* an await rejects (the database is unreachable, a document is refused):
\* catch (error) { console.error(...) }
SeedFails ==
  /\ spc \in 1..(SeedDone - 1)
  /\ serr' = "error"
  /\ spc' = SeedDone
  /\ UNCHANGED <<sdb, susers, slog, sruns, snext>>
  /\ UNCHANGED <<fvars, lvars, avars, dvars, cvars, mvars>>

NextSeed ==
  SeedStart \/ SeedDelete \/ SeedSaveUser \/ SeedSaveService \/ SeedSaveBlog \/ SeedFails

SpecSeed == InitSeed /\ [][NextSeed]_vars






(***************************************************************************)
(* Properties of formatResponse.                                           *)
(***************************************************************************)
ChildVals(h, n) ==
  IF h[n].kind = "array" THEN h[n].items
  ELSE [i \in 1..Len(h[n].entries) |-> h[n].entries[i].val]

\* the payload is tree-shaped: no object or array is met twice on a walk
\* from the root, so there is neither sharing nor a cycle
RECURSIVE TreeWalk(_, _, _)
TreeWalk(h, vals, visited) ==
  IF Len(vals) = 0 THEN [ok |-> TRUE, visited |-> visited]
  ELSE LET v == Head(vals) IN
       IF v.t # "ref" THEN TreeWalk(h, Tail(vals), visited)
       ELSE IF v.id \in visited THEN [ok |-> FALSE, visited |-> visited]
       ELSE LET r == TreeWalk(h, ChildVals(h, v.id), visited \cup {v.id}) IN
            IF ~r.ok THEN r ELSE TreeWalk(h, Tail(vals), r.visited)
IsTree(h, v) == TreeWalk(h, <<v>>, {}).ok

\* the nodes a node's fields and elements refer to
Succ(h, n) == {ChildVals(h, n)[i].id :
                 i \in {j \in 1..Len(ChildVals(h, n)) : ChildVals(h, n)[j].t = "ref"}}
RECURSIVE ReachFrom(_, _, _)
ReachFrom(h, S, k) ==
  IF k = 0 THEN S
  ELSE ReachFrom(h, S \cup UNION {Succ(h, n) : n \in S}, k - 1)
\* the payload holds a node that is reachable from itself
Cyclic(h, v) ==
  /\ v.t = "ref"
  /\ \E n \in ReachFrom(h, {v.id}, MaxNodes) : n \in ReachFrom(h, Succ(h, n), MaxNodes)

\* the structure of a value, references followed (acyclic values only)
RECURSIVE Struct(_, _)
Struct(h, v) ==
  CASE v.t = "ref" ->
         IF h[v.id].kind = "array"
         THEN Arr([i \in 1..Len(h[v.id].items) |-> Struct(h, h[v.id].items[i])])
         ELSE Obj([i \in 1..Len(h[v.id].entries) |->
                     [key |-> h[v.id].entries[i].key,
                      val |-> Struct(h, h[v.id].entries[i].val)]])
    [] v.t = "arr" -> Arr([i \in 1..Len(v.items) |-> Struct(h, v.items[i])])
    [] v.t = "obj" -> Obj([i \in 1..Len(v.entries) |->
                             [key |-> v.entries[i].key,
                              val |-> Struct(h, v.entries[i].val)]])
    [] OTHER -> v

\* the left-to-right form of a tree-shaped value: every Ar-suffixed field
\* dropped at every depth, everything else kept
RECURSIVE StripArabic(_, _)
StripArabic(h, v) ==
  IF v.t # "ref" THEN v
  ELSE IF h[v.id].kind = "array"
  THEN Arr([i \in 1..Len(h[v.id].items) |-> StripArabic(h, h[v.id].items[i])])
  ELSE LET IsBase(e) == ~endsWith(e.key, AR)
           kept == SelectSeq(h[v.id].entries, IsBase)
       IN Obj([i \in 1..Len(kept) |->
                 [key |-> kept[i].key, val |-> StripArabic(h, kept[i].val)]])

RootIsObject == data.t = "ref" /\ heap[data.id].kind = "object"
RootEntries == heap[data.id].entries

\* C1: for every object holding both K and K+'Ar', in either order of the two
\* keys, formatResponse under isRTL = true returns an object whose K holds the
\* value K+'Ar' had in the input and that has no key K+'Ar'.
C1_RtlTakesArabicValue ==
  (fpc = "done" /\ isRTL /\ RootIsObject) =>
    \A K \in Keys :
      (HasProp(RootEntries, K) /\ HasProp(RootEntries, K \o AR)) =>
        /\ ~out.raised
        /\ out.val.t = "obj"
        /\ HasProp(out.val.entries, K)
        /\ GetProp(out.val.entries, K) = GetProp(RootEntries, K \o AR)
        /\ ~HasProp(out.val.entries, K \o AR)

\* C4: for every object holding both a base key K and K+'Ar', formatResponse
\* under isRTL = false returns an object whose K holds the formatted form of
\* K's own input value (the value itself for a scalar, its left-to-right form
\* for a tree-shaped composite) and that has no key K+'Ar'.
C4_LtrKeepsBaseValue ==
  (fpc = "done" /\ ~isRTL /\ RootIsObject) =>
    \A K \in Keys :
      (~endsWith(K, AR) /\ HasProp(RootEntries, K) /\ HasProp(RootEntries, K \o AR)) =>
        /\ ~out.raised
        /\ out.val.t = "obj"
        /\ HasProp(out.val.entries, K)
        /\ ~HasProp(out.val.entries, K \o AR)
        /\ LET own == GetProp(RootEntries, K)
               got == GetProp(out.val.entries, K)
           IN /\ own.t # "ref" => got = own
              /\ IsTree(heap, data) => got = StripArabic(heap, own)
              /\ got.t \in {"str", "null", "obj", "arr"}

\* C4's case: a left-to-right run on an object whose base field holds a nested
\* object and whose Ar field holds a different value
C4_Witness ==
  /\ fpc = "done" /\ ~isRTL /\ RootIsObject
  /\ IsTree(heap, data)
  /\ HasProp(RootEntries, kN) /\ HasProp(RootEntries, kNAr)
  /\ GetProp(RootEntries, kN).t = "ref"
  /\ GetProp(RootEntries, kNAr) = sY
  /\ out.val = Obj(<<[key |-> kN, val |-> Obj(<<[key |-> kN, val |-> sX]>>)]>>)


\* an object or array of the output: one the formatter created, or an input
\* object or array handed through by reference
IsOutObject(h, o) == o.t = "obj" \/ (o.t = "ref" /\ h[o.id].kind = "object")
IsOutArray(h, o) == o.t = "arr" \/ (o.t = "ref" /\ h[o.id].kind = "array")
OutEntries(h, o) == IF o.t = "obj" THEN o.entries ELSE h[o.id].entries
OutItems(h, o) == IF o.t = "arr" THEN o.items ELSE h[o.id].items

\* input value v and the output value o standing for it, walked together: every
\* nested input object that holds a base key K and K+'Ar' (and no K+'ArAr')
\* shows K and no K+'Ar' in the output.  The walk goes down wherever the field
\* an output key was taken from is unambiguous: a base field without an Ar
\* twin under rtl, an Ar field without a base twin under rtl.
RECURSIVE PairsCollapsed(_, _, _, _, _)
PairsCollapsed(h, rtl, v, o, nested) ==
  IF v.t # "ref" THEN TRUE
  ELSE IF h[v.id].kind = "array"
  THEN /\ IsOutArray(h, o)
       /\ Len(OutItems(h, o)) = Len(h[v.id].items)
       /\ \A i \in 1..Len(h[v.id].items) :
            PairsCollapsed(h, rtl, h[v.id].items[i], OutItems(h, o)[i], TRUE)
  ELSE LET E == h[v.id].entries IN
       /\ IsOutObject(h, o)
       /\ nested =>
            \A K \in Keys :
              (/\ ~endsWith(K, AR)
               /\ HasProp(E, K) /\ HasProp(E, K \o AR) /\ ~HasProp(E, K \o AR \o AR)) =>
                 HasProp(OutEntries(h, o), K) /\ ~HasProp(OutEntries(h, o), K \o AR)
       /\ \A i \in 1..Len(E) :
            LET k == E[i].key IN
            IF ~endsWith(k, AR)
            THEN (HasProp(OutEntries(h, o), k) /\ ~(rtl /\ HasProp(E, k \o AR))) =>
                   PairsCollapsed(h, rtl, E[i].val, GetProp(OutEntries(h, o), k), TRUE)
            ELSE (/\ rtl
                  /\ HasProp(OutEntries(h, o), sliceEnd(k, 2))
                  /\ ~HasProp(E, sliceEnd(k, 2))) =>
                   PairsCollapsed(h, rtl, E[i].val,
                                  GetProp(OutEntries(h, o), sliceEnd(k, 2)), TRUE)

\* C5: the collapse of a pair K / K+'Ar' applies at every nesting depth: every
\* object nested in the payload, inside objects, inside arrays and inside the
\* values of Ar-suffixed fields selected under rtl, shows K and no K+'Ar' in
\* the output (stated for tree-shaped payloads, where every position of the
\* output stands for one input value).
C5_PairsCollapseAtEveryDepth ==
  (fpc = "done" /\ IsTree(heap, data)) =>
    ~out.raised /\ PairsCollapsed(heap, isRTL, data, out.val, FALSE)

Reachable(h, v) == IF v.t = "ref" THEN ReachFrom(h, {v.id}, MaxNodes) ELSE {}
ObjectKeys(h, n) ==
  IF h[n].kind = "object"
  THEN {h[n].entries[i].key : i \in 1..Len(h[n].entries)}
  ELSE {}
\* no object of the payload holds a key K together with K+'Ar'
NoPairs(h, v) ==
  \A n \in Reachable(h, v) : \A k \in ObjectKeys(h, n) : (k \o AR) \notin ObjectKeys(h, n)
\* no object of the payload holds a key that ends in 'Ar'
NoArKeys(h, v) ==
  \A n \in Reachable(h, v) : \A k \in ObjectKeys(h, n) : ~endsWith(k, AR)

\* C6 as stated: for a tree-shaped payload in which no key K is accompanied by
\* K+'Ar' in the same object, formatResponse returns a value structurally equal
\* to the input, under both directions.
C6_NoPairIsNoOp ==
  (fpc = "done" /\ IsTree(heap, data) /\ NoPairs(heap, data)) =>
    ~out.raised /\ Struct(heap, out.val) = Struct(heap, data)

\* C6 as amended: for a tree-shaped payload in which no key ends in 'Ar' at any
\* depth, formatResponse returns a value structurally equal to the input,
\* under both directions.
C6_NoArKeyIsNoOp ==
  (fpc = "done" /\ IsTree(heap, data) /\ NoArKeys(heap, data)) =>
    ~out.raised /\ Struct(heap, out.val) = Struct(heap, data)

\* C6's case: a right-to-left run on a two-level tree without Ar keys
C6_Witness ==
  /\ fpc = "done" /\ isRTL /\ RootIsObject
  /\ IsTree(heap, data) /\ NoArKeys(heap, data)
  /\ HasProp(RootEntries, kN)
  /\ GetProp(RootEntries, kN) = Ref(2)
  /\ heap[2] = ArrayNode(<<sX, sY>>)
  /\ out.val = Obj(<<[key |-> kN, val |-> Arr(<<sX, sY>>)]>>)

\* C7: for a payload that holds a reference cycle, through base keys, through
\* Ar-suffixed keys or through array elements, formatResponse returns a value
\* under both directions and does not throw (the call stack never overflows).
C7_CyclesTerminate ==
  (fpc = "done" /\ Cyclic(heap, data)) =>
    ~out.raised /\ out.val.t \in {"obj", "arr"}

\* C7's case: an object whose field holds an array that holds the object
C7_Witness ==
  /\ fpc = "done" /\ RootIsObject
  /\ Cyclic(heap, data)
  /\ heap[1] = ObjectNode(<<[key |-> kN, val |-> Ref(2)]>>)
  /\ heap[2] = ArrayNode(<<Ref(1)>>)
  /\ out.val = Obj(<<[key |-> kN, val |-> Arr(<<Null>>)]>>)

\* C7's case through an Ar-suffixed key selected under rtl
C7_WitnessArabic ==
  /\ fpc = "done" /\ isRTL /\ RootIsObject
  /\ heap[1] = ObjectNode(<<[key |-> kNAr, val |-> Ref(1)]>>)
  /\ ~out.raised

\* the value holds the null placeholder somewhere (payloads of the model hold
\* no null of their own)
RECURSIVE HasNull(_)
HasNull(o) ==
  CASE o.t = "null" -> TRUE
    [] o.t = "arr" -> \E i \in 1..Len(o.items) : HasNull(o.items[i])
    [] o.t = "obj" -> \E i \in 1..Len(o.entries) : HasNull(o.entries[i].val)
    [] OTHER -> FALSE

\* C20: formatResponse emits the null placeholder only for a value that is its
\* own ancestor: for a payload without a cycle the output holds no placeholder,
\* and an object or array that appears twice in an array is formatted to the
\* same non-null result at both positions.
C20_NullOnlyForCycles ==
  (fpc = "done" /\ data.t = "ref" /\ ~Cyclic(heap, data)) =>
    /\ ~out.raised
    /\ ~HasNull(out.val)
    /\ heap[data.id].kind = "array" =>
         \A i, j \in 1..Len(heap[data.id].items) :
           (heap[data.id].items[i].t = "ref"
              /\ heap[data.id].items[i] = heap[data.id].items[j]) =>
             /\ out.val.items[i] = out.val.items[j]
             /\ out.val.items[i] # Null

(***************************************************************************)
(* Properties of the admin router.                                         *)
(***************************************************************************)
Responded == apc = 0 /\ ares.code # 0
HandlerRan == \E i \in 1..Len(trail) : trail[i].step = "handler"
PassedBefore(step, i) == \E j \in 1..(i - 1) : trail[j] = Ran(step, TRUE)

\* C2: a PUT /bookings/:id/status request whose body status is none of
\* pending, confirmed, in-progress, completed, cancelled is rejected: the
\* handler writes nothing, the stored booking status is unchanged and no
\* success response is sent.
C2_InvalidBookingStatusRejected ==
  (Responded /\ areq.route = "bookingStatus" /\ areq.value \notin BookingStatuses) =>
    /\ "write" \notin touched
    /\ db.bookings = db0.bookings
    /\ ares.status # "success"

\* C3: no admin route handler runs for a request unless protect and then
\* authorize('admin') have passed for that request before it; a request that
\* fails either step reaches no handler and reads and writes no record.
C3_HandlersBehindProtectAndAuthorize ==
  /\ \A i \in 1..Len(trail) :
       trail[i].step = "handler" =>
         \E j \in 1..(i - 1) :
           trail[j] = Ran("authorize", TRUE) /\ PassedBefore("protect", j)
  /\ touched # {} => HandlerRan
  /\ (\E i \in 1..Len(trail) : trail[i] \in {Ran("protect", FALSE), Ran("authorize", FALSE)}) =>
       /\ ~HandlerRan
       /\ touched = {}
       /\ db = db0
       /\ apc = 0
       /\ ares.code \in {401, 403}

\* C3's case: a request with a non-admin token for a route that writes was
\* turned away at authorize, and the record it names is stored
C3_Witness ==
  /\ Responded
  /\ areq.route = "bookingStatus" /\ areq.cred = "user"
  /\ db.bookings[areq.id] = "pending"
  /\ trail = <<Ran("protect", TRUE), Ran("authorize", FALSE)>>
  /\ ares.code = 403

\* C3's case: an admin's request went through both steps and its handler
\* wrote a record
C3_WitnessAdmin ==
  /\ Responded
  /\ areq.cred = "admin"
  /\ trail = <<Ran("protect", TRUE), Ran("authorize", TRUE), Ran("validate", TRUE),
               Ran("handler", TRUE)>>
  /\ "write" \in touched

CollectionOf(route) ==
  CASE route = "userRole" -> "users"
    [] route = "bookingStatus" -> "bookings"
    [] route = "contactStatus" -> "contacts"
NotFoundMessage(route) ==
  CASE route = "userRole" -> "User not found"
    [] route = "bookingStatus" -> "Booking not found"
    [] route = "contactStatus" -> "Contact not found"
UpdateRoutes == {"userRole", "bookingStatus", "contactStatus"}

\* C11: an admin update of a user's role, a booking's status or a contact's
\* status that names an id with no stored record is answered with a 404 error
\* carrying 'User not found', 'Booking not found' or 'Contact not found',
\* performs no write and leaves every stored record unchanged.
C11_MissingRecordIs404 ==
  (/\ Responded /\ HandlerRan
   /\ areq.route \in UpdateRoutes
   /\ db0[CollectionOf(areq.route)][areq.id] = "none") =>
    /\ ares.code = 404
    /\ ares.status # "success"
    /\ ares.message = NotFoundMessage(areq.route)
    /\ "write" \notin touched
    /\ db = db0

\* C11's case: an admin's contact update named an id with no record, while
\* its body carried an allowed status
C11_Witness ==
  /\ Responded /\ HandlerRan
  /\ areq.route = "contactStatus" /\ areq.cred = "admin" /\ areq.value = "closed"
  /\ db0.contacts[areq.id] = "none"
  /\ ares = ErrorResponse("Contact not found", 404)
  /\ db = db0

\* C12: a PUT /users/:id/role request whose role is neither 'user' nor 'admin',
\* and a PUT /contacts/:id/status request whose status is outside the route's
\* list, get a 4xx response with a message and leave the stored user role and
\* contact status unchanged.
C12_InvalidRoleOrContactStatusRejected ==
  (/\ Responded /\ HandlerRan
   /\ areq.route \in {"userRole", "contactStatus"}
   /\ areq.value \notin Allowed(areq.route)) =>
    /\ ares.code >= 400 /\ ares.code < 500
    /\ ares.message # "none"
    /\ db.users = db0.users
    /\ db.contacts = db0.contacts

(***************************************************************************)
(* Properties of the dashboard.                                            *)
(***************************************************************************)
\* the kinds of document of a collection
Docs(coll) == {k \in DocKinds : k.coll = coll}
\* created in the current month (no document is created after today)
ThisMonth(k) == k.createdAt.month = now.month

\* C13: when no record is written while a dashboard request is served, every
\* count of the response is the number of stored records its filter matches:
\* the five totals count their whole collection, newContacts the contacts with
\* status 'new', pendingBookings the bookings with status 'pending', and
\* monthly.bookings / monthly.contacts the records created in the current
\* month.
C13_CountsMatchStore ==
  (dres.sent /\ ~wrote) =>
    /\ dres.overview.totalUsers = store[Plain("users")]
    /\ dres.overview.totalServices = store[Plain("services")]
    /\ dres.overview.totalBlogs = store[Plain("blogs")]
    /\ dres.overview.totalContacts = SumOver(store, Docs("contacts"))
    /\ dres.overview.totalBookings = SumOver(store, Docs("bookings"))
    /\ dres.overview.newContacts = SumOver(store, {k \in Docs("contacts") : k.status = "new"})
    /\ dres.overview.pendingBookings =
         SumOver(store, {k \in Docs("bookings") : k.status = "pending"})
    /\ dres.monthly.bookings = SumOver(store, {k \in Docs("bookings") : ThisMonth(k)})
    /\ dres.monthly.contacts = SumOver(store, {k \in Docs("contacts") : ThisMonth(k)})

\* C13's case: a response sent on the second day of a month, over a pending
\* booking of the month before and a completed one of the month's first day
C13_Witness ==
  /\ dres.sent /\ ~wrote
  /\ now = Date(2, 2)
  /\ store[Booking("pending", Date(1, 2))] = 1
  /\ store[Booking("completed", Date(2, 1))] = 1
  /\ dres.overview.totalBookings = 2
  /\ dres.overview.pendingBookings = 1
  /\ dres.monthly.bookings = 1
  /\ dres.monthly.contacts = 0

\* C21: every dashboard response has pendingBookings <= totalBookings and
\* newContacts <= totalContacts, also when bookings and contacts are created
\* or have their status changed while the request is served.
C21_CountsConsistentUnderWrites ==
  dres.sent =>
    /\ dres.overview.pendingBookings <= dres.overview.totalBookings
    /\ dres.overview.newContacts <= dres.overview.totalContacts

\* C21, amended: when no booking or contact is created while a dashboard
\* request is served, its response has pendingBookings <= totalBookings and
\* newContacts <= totalContacts, also when statuses are changed meanwhile.
C21_CountsConsistentUnderStatusChanges ==
  (dres.sent /\ ~created) =>
    /\ dres.overview.pendingBookings <= dres.overview.totalBookings
    /\ dres.overview.newContacts <= dres.overview.totalContacts

\* C21's case: a response whose request saw a status written while it was
\* served, over a booking that is pending and a contact that is new by then
C21_Witness ==
  /\ dres.sent /\ wrote /\ ~created
  /\ dres.overview.totalBookings = 1 /\ dres.overview.pendingBookings = 1
  /\ dres.overview.totalContacts = 1 /\ dres.overview.newContacts = 0
  /\ \E d \in Dates : store[Contact("new", d)] = 1

(***************************************************************************)
(* Properties of the API client.                                           *)
(***************************************************************************)
\* C14: whenever the client handles an error response with status 401 while
\* the path is not /login, the token and the user are removed from
\* localStorage and the location is set to /login; when the path is /login, or
\* the error is not a 401 response, localStorage and the location are left as
\* they were; in every case the error is rejected to the caller.
C14_UnauthorizedClearsSession ==
  (last.handled /\ last.error) =>
    /\ last.rejected
    /\ IF last.status = 401 /\ last.path # "/login"
       THEN /\ ls.token = Null /\ ls.user = Null
            /\ href = "/login"
       ELSE /\ ls = last.lsBefore
            /\ href = last.hrefBefore
            /\ pathname = last.path

\* C14's case: a 401 on /admin with a token and a user stored
C14_Witness ==
  /\ last.handled /\ last.error /\ last.rejected
  /\ last.status = 401 /\ last.path = "/admin"
  /\ last.lsBefore = [token |-> Str(<<"t", "1">>), user |-> Str(<<"u">>)]
  /\ ls = [token |-> Null, user |-> Null]
  /\ href = "/login"

\* C14's case: a 401 on /login leaves the stored token in place
C14_WitnessOnLogin ==
  /\ last.handled /\ last.error /\ last.rejected
  /\ last.status = 401 /\ last.path = "/login"
  /\ ls.token = Str(<<"t", "1">>)
  /\ href = "none"

\* a token is stored: the entry is there and is not the empty string
TokenStored(token) == token.t = "str" /\ Len(token.v) > 0

\* C15: every request sent through the client carries Authorization =
\* 'Bearer ' + token if and only if a token (a non-empty entry) is stored in
\* localStorage when the request is sent; so once a 401 has removed the token,
\* no request sent later carries an Authorization header until a token is
\* stored again.
C15_AuthorizationFollowsToken ==
  \A i \in 1..Len(flight) :
    LET r == flight[i] IN
    /\ TokenStored(r.token) =>
         r.headers.Authorization = Str(<<"B", "e", "a", "r", "e", "r", " ">> \o r.token.v)
    /\ ~TokenStored(r.token) => r.headers.Authorization = Undefined
    /\ r.cleared => r.headers.Authorization = Undefined

\* C15's case: a request sent before a 401 removed the token is still in
\* flight with its header, and one sent after it has none
C15_Witness ==
  /\ Len(flight) = 2
  /\ flight[1].headers.Authorization = Str(<<"B", "e", "a", "r", "e", "r", " ", "t", "1">>)
  /\ ~flight[1].cleared
  /\ flight[2].cleared
  /\ flight[2].headers.Authorization = Undefined
  /\ cleared /\ ls.token = Null

(***************************************************************************)
(* Properties of the modals.                                               *)
(***************************************************************************)
\* C16: in both modals, onSuccess and then onClose are each called once, in
\* that order, exactly when the submitted request resolves; when it fails
\* neither is called, so an open modal stays open.
C16_CallbacksOnSuccessOnly ==
  /\ mlast.event = "resolved" =>
       /\ mlast.calls = <<"onSuccess", "onClose">>
       /\ ~isOpen
  /\ mlast.event = "rejected" =>
       /\ mlast.calls = <<>>
       /\ isOpen = mlast.openBefore

\* C16's case: a request of ContactModal failed while the modal was open
C16_Witness ==
  /\ modal = "contact"
  /\ mlast.event = "rejected" /\ mlast.openBefore
  /\ isOpen /\ ~loading /\ pending = <<>>

\* C16's case: a create request of ServiceModal resolved
C16_WitnessResolved ==
  /\ modal = "service" /\ target = Null
  /\ mlast.event = "resolved" /\ mlast.openBefore
  /\ mlast.calls = <<"onSuccess", "onClose">>
  /\ ~isOpen /\ ~loading

\* the submit controls of the modal shown are all disabled
ControlsDisabled ==
  IF modal = "service" THEN loading
  ELSE \A status \in StatusButtons : loading \/ target.status = status

\* C17: in both modals loading is true from the start of a submission until
\* its request settles and false afterwards, whether it succeeded or failed;
\* while loading is true the submit control is disabled; at most one request
\* of the modal is in flight at any time.
C17_OneRequestInFlight ==
  /\ loading = (Len(pending) > 0)
  /\ Len(pending) <= 1
  /\ (loading /\ isOpen) => ControlsDisabled
  /\ mlast.event \in {"resolved", "rejected"} => ~loading

\* C17's case: ServiceModal was closed and shown again while its request is
\* in flight, so its submit button is disabled
C17_Witness ==
  /\ modal = "service"
  /\ mlast.event = "opened"
  /\ isOpen /\ loading
  /\ Len(pending) = 1

\* C18: every time ServiceModal becomes open, after any earlier opens, edits,
\* file selections and closes: in Add mode the form fields are the defaults
\* and the preview URL and the selected file are null; in Edit mode the form
\* fields are the name, description, price, duration and category of
\* serviceToEdit.
C18_OpenResetsOrPopulates ==
  (modal = "service" /\ mlast.event = "opened") =>
    IF target = Null
    THEN /\ formData.name = Str(<<>>) /\ formData.description = Str(<<>>)
         /\ formData.price = Str(<<>>) /\ formData.duration = Str(<<>>)
         /\ formData.category = Str(<<"O", "t", "h", "e", "r">>)
         /\ previewUrl = Null
         /\ imageFile = Null
    ELSE \A f \in FormFields : formData[f] = target[f]

\* C18's case: Add mode, shown again while the request of an earlier
\* submission is in flight
C18_Witness ==
  /\ modal = "service" /\ mlast.event = "opened"
  /\ target = Null
  /\ Len(pending) = 1 /\ pending[1].op = "update"
  /\ formData = DefaultForm /\ previewUrl = Null /\ imageFile = Null

\* C18's case: Edit mode for a service without images, the file selected
\* earlier still there
C18_WitnessEdit ==
  /\ modal = "service" /\ mlast.event = "opened"
  /\ target # Null /\ target.images = <<>>
  /\ imageFile = Str(<<"f">>)
  /\ formData.name = Str(<<"a">>)

(***************************************************************************)
(* Properties of the seed script.                                          *)
(***************************************************************************)
\* a document without its generated fields
Sample(doc, fields) == [f \in fields |-> doc[f]]
Range(seq) == {seq[i] : i \in 1..Len(seq)}

\* C19: after seedDatabase has completed without error, whatever the database
\* held before, it holds exactly the 3 sample users, the 3 sample services and
\* the 1 sample blog, no booking and no contact, and the blog's author is the
\* _id of the admin user the run created; every deletion of the run precedes
\* every creation; so a second run leaves the contents of the first, up to the
\* generated ids.
C19_SeedReplacesContents ==
  (spc = SeedDone /\ serr = NoError) =>
    /\ Cardinality(sdb.users) = 3
    /\ {Sample(u, {"email", "role"}) : u \in sdb.users} = Range(sampleData.users)
    /\ Cardinality(sdb.services) = 3
    /\ {Sample(v, {"name"}) : v \in sdb.services} = Range(sampleData.services)
    /\ Cardinality(sdb.blogs) = 1
    /\ {Sample(b, {"title"}) : b \in sdb.blogs} =
         {Sample(b, {"title"}) : b \in Range(sampleData.blogs)}
    /\ sdb.bookings = {}
    /\ sdb.contacts = {}
    /\ \A b \in sdb.blogs :
         \E u \in sdb.users :
           /\ u.role = "admin" /\ b.author = u._id
           /\ u \in Range(susers)
    /\ \A i, j \in 1..Len(slog) :
         (slog[i].op = "save" /\ slog[j].op = "deleteMany") => j < i

\* C19's case: the second run has completed on what the first run left
C19_Witness ==
  /\ spc = SeedDone /\ serr = NoError
  /\ sruns = 2
  /\ \E u \in sdb.users : u.email = "admin@autologic.com" /\ u._id = 8
  /\ \A b \in sdb.blogs : b.author = 8
  /\ Cardinality(sdb.users) = 3

(***************************************************************************)
(* Properties of rtlSupport and of the patched res.json.                   *)
(***************************************************************************)
\* the first language range of the header: the text before the first ",",
\* its parameters (from ";") left out
FirstRange(h) == splitFirst(splitFirst(h, ","), ";q=0.9")
\* the primary subtag of the first language listed in the header
PrimarySubtag(h) == splitFirst(FirstRange(h), "-")

IsLetter(c) == c \in {"a", "r", "A"}
\* the header is a list of language ranges: range ("," range)*, a range being
\* letters ("-" letters)* with an optional quality parameter
WellFormedHeader(s) ==
  /\ Len(s) > 0
  /\ IsLetter(s[1])
  /\ \A i \in 2..Len(s) :
       CASE s[i] = "-" -> IsLetter(s[i - 1]) /\ i < Len(s) /\ IsLetter(s[i + 1])
         [] s[i] = ";q=0.9" -> IsLetter(s[i - 1]) /\ (i = Len(s) \/ s[i + 1] = ",")
         [] s[i] = "," -> s[i - 1] # "," /\ s[i - 1] # "-" /\ i < Len(s) /\ IsLetter(s[i + 1])
         [] OTHER -> TRUE

\* C9: req.language is the lang query parameter whenever that is present and
\* non-empty; otherwise the primary subtag of the first language listed in
\* Accept-Language; otherwise, when neither yields a value, 'en' (stated for
\* requests whose Accept-Language header is absent, empty or well-formed).
C9_LanguageResolution ==
  (lpc # "start" /\ (hLang.t = "str" => (Len(hLang.v) = 0 \/ WellFormedHeader(hLang.v)))) =>
    language =
      IF qLang.t = "str" /\ Len(qLang.v) > 0 THEN qLang
      ELSE IF hLang.t = "str" /\ Len(PrimarySubtag(hLang.v)) > 0
      THEN Str(PrimarySubtag(hLang.v))
      ELSE en

IsSuccessEnvelope ==
  /\ RootIsObject
  /\ PropOf(Obj(RootEntries), kStatus) = sSuccess
  /\ PropOf(Obj(RootEntries), kData).t = "ref"
  /\ heap[PropOf(Obj(RootEntries), kData).id].kind = "object"

CarriesLanguage ==
  /\ sent.called /\ ~sent.raised
  /\ sent.val.t = "obj"
  /\ PropOf(sent.val, kLanguage) =
       Obj(<<Field(kCode, language), Field(kDirection, direction), Field(kIsRTL, Bool(isRTL))>>)
  /\ isRTL = (direction = Str(<<"r", "t", "l">>))

\* C8 as stated: when the patched res.json is called with an object payload
\* whose status is 'success' and whose data is an object, the payload handed
\* to the original json carries language = {code, direction, isRTL} equal to
\* req.language, req.direction and req.isRTL, isRTL being true exactly when
\* direction is 'rtl'.
C8_SuccessEnvelopeCarriesLanguage ==
  (lpc = "sent" /\ IsSuccessEnvelope) => CarriesLanguage

\* C8 as amended: the same, for a tree-shaped payload (no shared or cyclic
\* reference) that, when the direction is rtl, has no statusAr and no dataAr
\* field.
C8_PlainEnvelopeCarriesLanguage ==
  (/\ lpc = "sent" /\ IsSuccessEnvelope
   /\ IsTree(heap, data)
   /\ isRTL => (~HasProp(RootEntries, kStatus \o AR) /\ ~HasProp(RootEntries, kData \o AR)))
  => CarriesLanguage

\* C8's case: a success envelope sent under a right-to-left language
C8_Witness ==
  /\ lpc = "sent" /\ IsSuccessEnvelope /\ IsTree(heap, data)
  /\ isRTL
  /\ language = Str(<<"a", "r">>)
  /\ heap[2] = Item
  /\ sent.val =
       Obj(<<Field(kStatus, sSuccess), Field(kData, Obj(<<Field(kN, sY)>>)),
             Field(kLanguage,
                   Obj(<<Field(kCode, Str(<<"a", "r">>)),
                         Field(kDirection, Str(<<"r", "t", "l">>)),
                         Field(kIsRTL, Bool(TRUE))>>))>>)


RtlCodes ==
  {<<"a", "r">>, <<"h", "e">>, <<"f", "a">>, <<"u", "r">>, <<"k", "u">>, <<"d", "v">>}
\* two characters that differ at most in case
SameLetter(c, d) ==
  \/ c = d
  \/ <<c, d>> \in {<<"A", "a">>, <<"a", "A">>, <<"R", "r">>, <<"r", "R">>,
                   <<"E", "e">>, <<"e", "E">>, <<"G", "g">>, <<"g", "G">>}
SameIgnoringCase(s, t) ==
  Len(s) = Len(t) /\ \A i \in 1..Len(s) : SameLetter(s[i], t[i])

\* C10: after rtlSupport, req.isRTL is true exactly when the resolved language,
\* compared case-insensitively, is one of ar, he, fa, ur, ku, dv, and
\* req.direction is 'rtl' exactly when req.isRTL is true, 'ltr' otherwise.
C10_DirectionOfLanguage ==
  (lpc # "start") =>
    /\ isRTL = (\E code \in RtlCodes : SameIgnoringCase(language.v, code))
    /\ direction = (IF isRTL THEN Str(<<"r", "t", "l">>) ELSE Str(<<"l", "t", "r">>))
    /\ (direction = Str(<<"r", "t", "l">>)) = isRTL

\* C10's case: an upper-case right-to-left tag from the query
C10_Witness ==
  /\ lpc = "resolved"
  /\ language = Str(<<"A", "R">>)
  /\ isRTL
  /\ direction = Str(<<"r", "t", "l">>)

\* C10's case: a left-to-right default
C10_WitnessLtr ==
  /\ lpc = "resolved"
  /\ language = en
  /\ ~isRTL
  /\ direction = Str(<<"l", "t", "r">>)

=============================================================================
